---- MODULE Spec2Model ----
(***************************************************************************)
(* A model of ebb, a command-line time tracker.                            *)
(*                                                                         *)
(* The persisted data are the variables frames (frames.toml), state        *)
(* (state.toml), working_hours (config.toml) and the three day-off         *)
(* calendars; now is the system clock; out is what the last operation      *)
(* produced.  Timestamps are counted in ticks, DayLen ticks to a local     *)
(* day; the durations of the weekly template are counted in half seconds,  *)
(* so that Duration / 2 of a whole number of seconds is exact.             *)
(***************************************************************************)
EXTENDS Integers, Sequences, FiniteSets, TLC

VARIABLES frames, state, now, working_hours, vacations, holidays, sick_days,
          vacation_days_per_year, sick_days_per_year, out

vars == <<frames, state, now, working_hours, vacations, holidays, sick_days,
          vacation_days_per_year, sick_days_per_year, out>>

persisted == <<frames, state, now, working_hours, vacations, holidays, sick_days,
               vacation_days_per_year, sick_days_per_year>>

(***************************************************************************)
(* Bounds of the model.                                                    *)
(***************************************************************************)
\* ticks in one local day
DayLen == 2
\* offset of the local time zone, in ticks east of UTC
LocalOffset == 1
\* days from which the clock is read when a period is resolved
MaxPeriodDays == 400
\* longest frame list given to the filters
MaxLen == 2
\* largest timestamp of a frame or period given to the filters
MaxT == 3
\* largest timestamp of a period given to expected_duration
ExpMaxT == 29
\* most day-off entries in the three calendars together
MaxDayOffs == 2
\* largest allowance of days in a table of the configuration
MaxAllowed == 2
\* latest reading of the clock while tracking
MaxClock == 2
\* how far after the latest reading of the clock --at may lie
MaxAhead == 1
\* most frames recorded while tracking
MaxFrames == 2

None == <<>>

Some(x) == <<x>>

IsSome(o) == o # <<>>

Unwrap(o) == o[1]

\* the sum of f[x] over the finite set S of integers or strings
RECURSIVE SumOver(_, _)
SumOver(S, f) ==
    IF S = {} THEN 0
    ELSE LET x == CHOOSE y \in S : TRUE IN f[x] + SumOver(S \ {x}, f)

(***************************************************************************)
(* types.rs: Frame, Frames and the two time filters.                       *)
(***************************************************************************)
Frame(start_time, end_time, project, tags, updated_at) ==
    [start_time |-> start_time, end_time |-> end_time, project |-> project,
     tags |-> tags, updated_at |-> updated_at]

\* the closure of filter_by_start_time on one frame: the frame as retained,
\* or nothing when it is removed
StartRetainNoClip(frame, from) ==
    IF frame.start_time < from /\ frame.end_time > from
    THEN <<frame>>
    ELSE IF frame.start_time >= from THEN <<frame>> ELSE <<>>

StartRetainStrict(frame, from) ==
    IF frame.start_time < from /\ frame.end_time > from
    THEN <<[frame EXCEPT !.start_time = from]>>
    ELSE IF frame.start_time > from THEN <<frame>> ELSE <<>>

StartRetain(frame, from) ==
    IF frame.start_time < from /\ frame.end_time > from
    THEN <<[frame EXCEPT !.start_time = from]>>
    ELSE IF frame.start_time >= from THEN <<frame>> ELSE <<>>

\* the closure of filter_by_end_time on one frame
EndRetainStrict(frame, to) ==
    IF frame.start_time < to /\ frame.end_time > to
    THEN <<[frame EXCEPT !.end_time = to]>>
    ELSE IF frame.end_time < to THEN <<frame>> ELSE <<>>

EndRetain(frame, to) ==
    IF frame.start_time < to /\ frame.end_time > to
    THEN <<[frame EXCEPT !.end_time = to]>>
    ELSE IF frame.end_time <= to THEN <<frame>> ELSE <<>>

RECURSIVE filter_by_start_time(_, _)
filter_by_start_time(fs, from) ==
    IF fs = <<>> THEN <<>>
    ELSE StartRetain(Head(fs), from) \o filter_by_start_time(Tail(fs), from)

RECURSIVE filter_by_end_time(_, _)
filter_by_end_time(fs, to) ==
    IF fs = <<>> THEN <<>>
    ELSE EndRetain(Head(fs), to) \o filter_by_end_time(Tail(fs), to)

Timespan(from, to) == [from |-> from, to |-> to]

\* frames.filter_by_start_time(timespan.from).filter_by_end_time(timespan.to)
FilterByTimespan(fs, timespan) ==
    filter_by_end_time(filter_by_start_time(fs, timespan.from), timespan.to)

(***************************************************************************)
(* Defaults of the persisted data (persistence.rs).                        *)
(***************************************************************************)
\* Duration::from_secs(n), in half seconds
FromSecs(n) == 2 * n

\* weekdays are numbered from Monday = 0, as num_days_from_monday does
default_working_hours ==
    [d \in 0..6 |-> IF d <= 4 THEN FromSecs(8) ELSE FromSecs(0)]

EmptyCalendar == [d \in {} |-> "Full"]

\* default_vacation_days_per_year and default_sick_days_per_year
default_days_per_year == [y \in {2000} |-> 30]

\* config.toml without allowance tables
DefaultAllowances ==
    /\ vacation_days_per_year = default_days_per_year
    /\ sick_days_per_year = default_days_per_year

(***************************************************************************)
(* balance.rs: the expected working time of a period.                      *)
(*                                                                         *)
(* A Duration is a number of half seconds.  `full_weeks as u32` wraps a    *)
(* negative number of weeks to 2^32 + full_weeks, which is beyond the      *)
(* integers of the model checker: a Duration is therefore kept as the      *)
(* record [hi, lo] that stands for hi * 2^32 + lo.                         *)
(***************************************************************************)
\* the weekday (days from Monday) of day 0 of the epoch, a Thursday
WeekdayOfDayZero == 3

\* Local.timestamp_opt(secs, 0).unwrap().date_naive(), as a day number
timestamp_to_local_date(secs) == (secs + LocalOffset) \div DayLen

\* date.weekday().num_days_from_monday()
Weekday(date) == (date + WeekdayOfDayZero) % 7

get_hours_for_day_sunday_first(date, wh) == wh[(Weekday(date) + 1) % 7]

get_hours_for_day(date, wh) == wh[Weekday(date)]

total_weekly_duration(wh) ==
    wh[0] + wh[1] + wh[2] + wh[3] + wh[4] + wh[5] + wh[6]

\* i64 division and remainder, which truncate toward zero
TruncDiv(a, b) == IF a >= 0 THEN a \div b ELSE -((-a) \div b)

TruncRem(a, b) == a - b * TruncDiv(a, b)

calculate_weeks_and_days_exclusive(timespan) ==
    LET from_date == timestamp_to_local_date(timespan.from)
        to_date == timestamp_to_local_date(timespan.to)
        days_diff == to_date - from_date
    IN  [full_weeks |-> TruncDiv(days_diff, 7),
         remaining_days |-> TruncRem(days_diff, 7)]

calculate_weeks_and_days(timespan) ==
    LET from_date == timestamp_to_local_date(timespan.from)
        to_date == timestamp_to_local_date(timespan.to)
        days_diff == (to_date - from_date) + 1
    IN  [full_weeks |-> TruncDiv(days_diff, 7),
         remaining_days |-> TruncRem(days_diff, 7)]

\* the loop of calculate_remaining_days_hours from offset on
RECURSIVE RemainingLoop(_, _, _, _)
RemainingLoop(offset, remaining_days, start_date, wh) ==
    IF offset >= remaining_days THEN 0
    ELSE get_hours_for_day(start_date + offset, wh)
           + RemainingLoop(offset + 1, remaining_days, start_date, wh)

\* calculate_remaining_days_hours with the first date one day early
calculate_remaining_days_hours_early(remaining_days, end_date, wh) ==
    IF remaining_days = 0 THEN 0
    ELSE RemainingLoop(0, remaining_days, end_date - remaining_days, wh)

calculate_remaining_days_hours(remaining_days, end_date, wh) ==
    IF remaining_days = 0 THEN 0
    ELSE RemainingLoop(0, remaining_days, end_date - (remaining_days - 1), wh)

\* n as u32, for an n of small magnitude
AsU32(n) == IF n >= 0 THEN [hi |-> 0, lo |-> n] ELSE [hi |-> 1, lo |-> n]

\* Duration::checked_mul: None when the seconds exceed u64, i.e. when the
\* half seconds reach 2^65 = 2^33 * 2^32
checked_mul(duration, k) ==
    IF (duration * k.hi) \div 8 >= 1073741824
    THEN None
    ELSE Some([hi |-> duration * k.hi, lo |-> duration * k.lo])

portion_order(portion) == IF portion = "Full" THEN 2 ELSE 1

insert_or_overwrite_portion(map, date, portion) ==
    [d \in DOMAIN map \cup {date} |-> IF d = date THEN portion ELSE map[d]]

insert_or_upgrade_portion(map, date, portion) ==
    IF date \in DOMAIN map
    THEN IF portion_order(portion) > portion_order(map[date])
         THEN [map EXCEPT ![date] = portion]
         ELSE map
    ELSE [d \in DOMAIN map \cup {date} |-> IF d = date THEN portion ELSE map[d]]

\* BTreeMap::range(start_date..=end_date) panics when the start lies after
\* the end, unless the map has no entry at all (and so no root to search)
RangePanics(calendar, start_date, end_date) ==
    start_date > end_date /\ DOMAIN calendar # {}

Min(S) == CHOOSE x \in S : \A y \in S : x <= y

\* one loop of merge_day_offs_in_range: the entries of calendar on the dates
\* in dates, in ascending order
RECURSIVE MergeLoop(_, _, _)
MergeLoop(combined, calendar, dates) ==
    IF dates = {} THEN combined
    ELSE LET date == Min(dates)
         IN  MergeLoop(insert_or_upgrade_portion(combined, date, calendar[date]),
                       calendar, dates \ {date})

\* the range without its upper end, range(start_date..)
InRangeFrom(calendar, start_date, end_date) ==
    { d \in DOMAIN calendar : start_date <= d }

InRange(calendar, start_date, end_date) ==
    { d \in DOMAIN calendar : start_date <= d /\ d <= end_date }

merge_day_offs_in_range_unbounded(v, h, s, start_date, end_date) ==
    MergeLoop(MergeLoop(MergeLoop(<<>>, v, DOMAIN v), h, DOMAIN h), s, DOMAIN s)

merge_day_offs_in_range(v, h, s, start_date, end_date) ==
    MergeLoop(
        MergeLoop(
            MergeLoop(<<>>, v, InRange(v, start_date, end_date)),
            h, InRange(h, start_date, end_date)),
        s, InRange(s, start_date, end_date))

\* subtract_day_offs with the half of a day taken in whole seconds
RECURSIVE subtract_day_offs_whole(_, _, _, _)
subtract_day_offs_whole(duration, day_offs, dates, wh) ==
    IF dates = {} THEN duration
    ELSE LET date == Min(dates)
             daily_duration == get_hours_for_day(date, wh)
             subtract == IF day_offs[date] = "Full" THEN daily_duration
                         ELSE 2 * (daily_duration \div 4)
             next == IF duration.hi > 0 \/ duration.lo >= subtract
                     THEN [duration EXCEPT !.lo = @ - subtract]
                     ELSE [hi |-> 0, lo |-> 0]
         IN  subtract_day_offs_whole(next, day_offs, dates \ {date}, wh)

\* the loop of subtract_day_offs over the dates left, in ascending order
RECURSIVE subtract_day_offs(_, _, _, _)
subtract_day_offs(duration, day_offs, dates, wh) ==
    IF dates = {} THEN duration
    ELSE LET date == Min(dates)
             daily_duration == get_hours_for_day(date, wh)
             subtract == IF day_offs[date] = "Full" THEN daily_duration
                         ELSE daily_duration \div 2
             next == IF duration.hi > 0 \/ duration.lo >= subtract
                     THEN [duration EXCEPT !.lo = @ - subtract]
                     ELSE [hi |-> 0, lo |-> 0]
         IN  subtract_day_offs(next, day_offs, dates \ {date}, wh)

\* Duration::as_secs and the conversion to i64, which fails from 2^63 on:
\* the result stands for hi * 2^31 + lo seconds
AsSecs(duration) ==
    IF duration.hi \div 2 >= 1073741824
    THEN None
    ELSE Some([hi |-> duration.hi, lo |-> duration.lo \div 2])

Panic(place) == [status |-> "panic", at |-> place]

Secs(n) == [hi |-> 0, lo |-> n]

expected_duration(wh, timespan, h, s, v) ==
    LET start_date == timestamp_to_local_date(timespan.from)
        end_date == timestamp_to_local_date(timespan.to)
        wd == calculate_weeks_and_days(timespan)
        full_week_duration ==
            checked_mul(total_weekly_duration(wh), AsU32(wd.full_weeks))
        remaining_days_duration ==
            calculate_remaining_days_hours(wd.remaining_days, end_date, wh)
        day_offs == merge_day_offs_in_range(v, h, s, start_date, end_date)
        total_duration ==
            [Unwrap(full_week_duration) EXCEPT !.lo = @ + remaining_days_duration]
        subtracted ==
            subtract_day_offs(total_duration, day_offs, DOMAIN day_offs, wh)
    IN  IF full_week_duration = None THEN Panic("checked_mul")
        ELSE IF \/ RangePanics(v, start_date, end_date)
                \/ RangePanics(h, start_date, end_date)
                \/ RangePanics(s, start_date, end_date)
        THEN Panic("range")
        ELSE IF AsSecs(subtracted) = None THEN Panic("try_into")
        ELSE [status |-> "ok", secs |-> Unwrap(AsSecs(subtracted))]

\* the running total of expected_duration before subtract_day_offs, line 177
total_before_day_offs(wh, timespan) ==
    LET end_date == timestamp_to_local_date(timespan.to)
        wd == calculate_weeks_and_days(timespan)
        full_week_duration ==
            checked_mul(total_weekly_duration(wh), AsU32(wd.full_weeks))
        remaining_days_duration ==
            calculate_remaining_days_hours(wd.remaining_days, end_date, wh)
    IN  [Unwrap(full_week_duration) EXCEPT !.lo = @ + remaining_days_duration]

\* the passes of the loop of subtract_day_offs, in order: the date, the
\* amount to subtract, whether the total was too small for it and so was
\* set to zero, and the running total after the pass
RECURSIVE subtract_day_offs_steps(_, _, _, _)
subtract_day_offs_steps(duration, day_offs, dates, wh) ==
    IF dates = {} THEN <<>>
    ELSE LET date == Min(dates)
             daily_duration == get_hours_for_day(date, wh)
             subtract == IF day_offs[date] = "Full" THEN daily_duration
                         ELSE daily_duration \div 2
             enough == duration.hi > 0 \/ duration.lo >= subtract
             next == IF enough
                     THEN [duration EXCEPT !.lo = @ - subtract]
                     ELSE [hi |-> 0, lo |-> 0]
         IN  <<[date |-> date, subtract |-> subtract, clamped |-> ~enough,
                duration |-> next]>>
               \o subtract_day_offs_steps(next, day_offs, dates \ {date}, wh)

(***************************************************************************)
(* balance.rs and report.rs: the period of a command, the frames that lie  *)
(* in it and their totals.                                                 *)
(***************************************************************************)
\* the midnight of a date taken as UTC
UtcMidnight(date) == date * DayLen

\* the local midnight that begins a date, as a timestamp
LocalMidnight(date) == date * DayLen - LocalOffset

\* the day numbers on which the months of 1970 begin
MonthStarts == {0, 31, 59, 90, 120, 151, 181, 212, 243, 273, 304, 334}

\* date.with_day(1), for a date of 1970
WithDay1(date) ==
    CHOOSE m \in MonthStarts :
        m <= date /\ \A n \in MonthStarts : n <= date => n <= m

\* date.with_month(1).with_day(1), for a date of 1970
WithMonth1Day1(date) == date - (date % 365)

\* the arguments of balance and report: clap lets --from and --to stand only
\* without --day, --week, --month and --year, of which at most one is given
Args(selector, from, to, project) ==
    [selector |-> selector, from |-> from, to |-> to, project |-> project]

resolve_timespan(args, now_ts, fs) ==
    LET local_date == timestamp_to_local_date(now_ts)
    IN  IF args.selector = "day"
        THEN Timespan(LocalMidnight(local_date), now_ts)
        ELSE IF args.selector = "week"
        THEN Timespan(LocalMidnight(local_date - Weekday(local_date)), now_ts)
        ELSE IF args.selector = "month"
        THEN Timespan(LocalMidnight(WithDay1(local_date)), now_ts)
        ELSE IF args.selector = "year"
        THEN Timespan(LocalMidnight(WithMonth1Day1(local_date)), now_ts)
        ELSE Timespan(
                 IF IsSome(args.from) THEN Unwrap(args.from)
                 ELSE IF fs # <<>> THEN fs[1].start_time
                 ELSE 0,
                 IF IsSome(args.to) THEN Unwrap(args.to) ELSE now_ts)

\* the check of --from against --to without its equality
ExplicitPeriodRejectedStrict(args) ==
    IsSome(args.from) /\ IsSome(args.to) /\ Unwrap(args.from) > Unwrap(args.to)

\* the check that opens run_balance and run_report
ExplicitPeriodRejected(args) ==
    IsSome(args.from) /\ IsSome(args.to) /\ Unwrap(args.from) >= Unwrap(args.to)

\* the loaded frames, with the frame in progress pushed as one ending now
WithCurrentFrame(fs, st, now_ts) ==
    IF IsSome(st)
    THEN Append(fs, Frame(Unwrap(st).start_time, now_ts, Unwrap(st).project,
                          Unwrap(st).tags, now_ts))
    ELSE fs

\* the frames of a period without the empty-period branch
FramesInTimespanUncleared(fs, timespan) == FilterByTimespan(fs, timespan)

\* run_balance lines 80-86, run_report lines 87-91
FramesInTimespan(fs, timespan) ==
    IF timespan.from > timespan.to THEN <<>> ELSE FilterByTimespan(fs, timespan)

\* filter_frames_by_project of report.rs
filter_frames_by_project(fs, project) ==
    IF IsSome(project)
    THEN SelectSeq(fs, LAMBDA frame : frame.project = Unwrap(project))
    ELSE fs

\* total_duration of balance.rs
RECURSIVE total_duration(_)
total_duration(fs) ==
    IF fs = <<>> THEN 0
    ELSE (Head(fs).end_time - Head(fs).start_time) + total_duration(Tail(fs))

\* one round of the loop of total_duration_by_project on the map so far
AddToProjectOverwriting(project_durations, frame) ==
    LET duration == frame.end_time - frame.start_time
    IN  [p \in DOMAIN project_durations \cup {frame.project} |->
            IF p = frame.project THEN [duration |-> duration]
            ELSE project_durations[p]]

AddToProject(project_durations, frame) ==
    LET duration == frame.end_time - frame.start_time
        entry == IF frame.project \in DOMAIN project_durations
                 THEN project_durations[frame.project]
                 ELSE [duration |-> 0]
    IN  [p \in DOMAIN project_durations \cup {frame.project} |->
            IF p = frame.project
            THEN [entry EXCEPT !.duration = @ + duration]
            ELSE project_durations[p]]

RECURSIVE ProjectLoop(_, _)
ProjectLoop(project_durations, fs) ==
    IF fs = <<>> THEN project_durations
    ELSE ProjectLoop(AddToProject(project_durations, Head(fs)), Tail(fs))

\* total_duration_by_project of report.rs
total_duration_by_project(fs) ==
    [projects |-> ProjectLoop(<<>>, fs), total_duration |-> total_duration(fs)]

\* what run_balance prints, or how it ends
run_balance(args, now_ts) ==
    LET loaded == WithCurrentFrame(frames, state, now_ts)
        timespan == resolve_timespan(args, now_ts, loaded)
        kept == FramesInTimespan(loaded, timespan)
        expected == expected_duration(working_hours, timespan,
                                      holidays, sick_days, vacations)
        actual == total_duration(kept)
    IN  IF ExplicitPeriodRejected(args)
        THEN [kind |-> "balance", status |-> "error", args |-> args]
        ELSE IF expected.status = "panic"
        THEN [kind |-> "balance", status |-> "panic", args |-> args,
              timespan |-> timespan, frames |-> kept]
        ELSE [kind |-> "balance", status |-> "ok", args |-> args,
              timespan |-> timespan, frames |-> kept,
              expected_working_seconds |-> expected.secs,
              actual_working_seconds |-> actual,
              remaining_working_seconds |->
                  [expected.secs EXCEPT !.lo = @ - actual]]

\* what run_report prints, or how it ends
run_report(args, now_ts) ==
    LET loaded == WithCurrentFrame(frames, state, now_ts)
        timespan == resolve_timespan(args, now_ts, loaded)
        kept == IF timespan.from > timespan.to
                THEN FramesInTimespan(loaded, timespan)
                ELSE filter_frames_by_project(FramesInTimespan(loaded, timespan),
                                              args.project)
        totals == total_duration_by_project(kept)
    IN  IF ExplicitPeriodRejected(args)
        THEN [kind |-> "report", status |-> "error", args |-> args]
        ELSE [kind |-> "report", status |-> "ok", args |-> args,
              timespan |-> timespan, frames |-> kept,
              projects |-> totals.projects,
              total_duration |-> totals.total_duration]

(***************************************************************************)
(* The time filters as a function: a loaded frame list is filtered by a    *)
(* period with from <= to, and the result is filtered once more.           *)
(***************************************************************************)
FilterTimes == 0..MaxT

ProjectAt(i) == IF i % 2 = 1 THEN "p1" ELSE "p2"

TagsAt(i) ==
    IF i % 3 = 1 THEN <<"t1", "t2">> ELSE IF i % 3 = 2 THEN <<"t3">> ELSE <<"t2">>

\* the frame lists of length k, the i-th frame stamped updated_at = i
FrameLists(k) ==
    { [i \in 1..k |-> Frame(ts[i][1], ts[i][2], ProjectAt(i), TagsAt(i), i)] :
        ts \in [1..k -> FilterTimes \X FilterTimes] }

InitFilter ==
    /\ frames \in UNION { FrameLists(k) : k \in 0..MaxLen }
    /\ state = None
    /\ now = 0
    /\ working_hours = default_working_hours
    /\ vacations = EmptyCalendar
    /\ holidays = EmptyCalendar
    /\ sick_days = EmptyCalendar
    /\ DefaultAllowances
    /\ \E from \in FilterTimes, to \in FilterTimes :
          /\ from <= to
          /\ out = [kind |-> "loaded", timespan |-> Timespan(from, to)]

\* the else branch of run_balance, lines 83-85
Filter ==
    /\ out.kind = "loaded"
    /\ out' = [kind |-> "filtered", timespan |-> out.timespan,
               frames |-> FilterByTimespan(frames, out.timespan)]
    /\ UNCHANGED persisted

\* the same filters applied to the list they returned
Refilter ==
    /\ out.kind = "filtered"
    /\ out' = [kind |-> "refiltered", timespan |-> out.timespan,
               previous |-> out.frames,
               frames |-> FilterByTimespan(out.frames, out.timespan)]
    /\ UNCHANGED persisted

NextFilter == Filter \/ Refilter

SpecFilter == InitFilter /\ [][NextFilter]_vars

(***************************************************************************)
(* Claims about the time filters (SpecFilter).                             *)
(***************************************************************************)
FilterFrom == out.timespan.from

FilterTo == out.timespan.to

\* the i-th loaded frame is in the filtered list with the times s and e and
\* with nothing else changed
KeptAs(i, s, e) ==
    \E j \in DOMAIN out.frames :
        out.frames[j] = [frames[i] EXCEPT !.start_time = s, !.end_time = e]

\* the i-th loaded frame is not in the filtered list
Dropped(i) ==
    \A j \in DOMAIN out.frames : out.frames[j].updated_at # frames[i].updated_at

\* the cases of the claim that hold of every period with from <= to
ClipCasesOutsideSpan(i) ==
    LET t0 == frames[i].start_time
        t1 == frames[i].end_time
    IN  /\ (t0 < FilterFrom /\ FilterFrom < t1 /\ t1 <= FilterTo)
              => KeptAs(i, FilterFrom, t1)
        /\ (FilterFrom <= t0 /\ t0 < FilterTo /\ FilterTo < t1)
              => KeptAs(i, t0, FilterTo)
        /\ (FilterFrom <= t0 /\ t0 <= t1 /\ t1 <= FilterTo)
              => KeptAs(i, t0, t1)
        /\ (t0 < FilterFrom /\ t1 < FilterFrom) => Dropped(i)
        /\ (t0 > FilterTo /\ t1 > FilterTo) => Dropped(i)

\* every filtered frame is one of the loaded frames, with its project and tags
LabelsKept ==
    \A j \in DOMAIN out.frames :
        \E i \in DOMAIN frames :
            /\ out.frames[j].updated_at = frames[i].updated_at
            /\ out.frames[j].project = frames[i].project
            /\ out.frames[j].tags = frames[i].tags

\* C1 as stated: clipping by a period with from <= to turns a frame that
\* starts before from and ends in (from, to] into [from, t1], a frame that
\* starts in [from, to) and ends after to into [t0, to], a frame that starts
\* before from and ends after to into [from, to], keeps a frame inside
\* [from, to] unchanged and drops a frame wholly before from or wholly after
\* to; project and tags of kept frames are unchanged.
C1_ClippingAsClaimed ==
    out.kind = "filtered" =>
        /\ LabelsKept
        /\ \A i \in DOMAIN frames :
              /\ ClipCasesOutsideSpan(i)
              /\ (frames[i].start_time < FilterFrom /\ frames[i].end_time > FilterTo)
                    => KeptAs(i, FilterFrom, FilterTo)

\* C1 as amended: the same, but a frame that starts before from and ends
\* after to becomes [from, to] only when from < to; when from = to it is
\* dropped.
C1_Clipping ==
    out.kind = "filtered" =>
        /\ LabelsKept
        /\ \A i \in DOMAIN frames :
              /\ ClipCasesOutsideSpan(i)
              /\ (frames[i].start_time < FilterFrom /\ frames[i].end_time > FilterTo)
                    => IF FilterFrom < FilterTo
                       THEN KeptAs(i, FilterFrom, FilterTo)
                       ELSE Dropped(i)

\* a frame was clipped at both ends, and another frame was dropped
C1_Witness ==
    /\ out.kind = "filtered"
    /\ \E i \in DOMAIN frames :
          /\ frames[i].start_time < FilterFrom
          /\ frames[i].end_time > FilterTo
          /\ KeptAs(i, FilterFrom, FilterTo)
    /\ \E i \in DOMAIN frames : Dropped(i)

\* C5: filtering the list that the same period's filtering returned gives
\* the identical list (same frames, same order, same times).
C5_Idempotent ==
    out.kind = "refiltered" => out.frames = out.previous

\* the first filtering clipped a frame at its end and the second one ran
C5_Witness ==
    /\ out.kind = "refiltered"
    /\ \E i \in DOMAIN frames :
          /\ frames[i].end_time > FilterTo
          /\ \E j \in DOMAIN out.previous :
                /\ out.previous[j].updated_at = frames[i].updated_at
                /\ out.previous[j].end_time = FilterTo

\* the i-th loaded frame has no length and sits on instant t
ZeroLengthAt(i, t) ==
    frames[i].start_time = t /\ frames[i].end_time = t

\* C21 as stated: for a period with from <= to, every loaded frame with
\* end_time <= from and every loaded frame with start_time >= to is absent
\* from the filtered list, the frames of no length on from or on to included.
C21_OutsideDroppedAsClaimed ==
    out.kind = "filtered" =>
        \A i \in DOMAIN frames :
            /\ frames[i].end_time <= FilterFrom => Dropped(i)
            /\ frames[i].start_time >= FilterTo => Dropped(i)

\* C21 as amended: a loaded frame that ends at or before from is absent when
\* it starts before from, a loaded frame that starts at or after to is
\* absent when it ends after to, and a frame of no length on from or on to
\* stays in the filtered list unchanged.
C21_OutsideDropped ==
    out.kind = "filtered" =>
        \A i \in DOMAIN frames :
            /\ (frames[i].end_time <= FilterFrom /\ frames[i].start_time < FilterFrom)
                  => Dropped(i)
            /\ (frames[i].start_time >= FilterTo /\ frames[i].end_time > FilterTo)
                  => Dropped(i)
            /\ (ZeroLengthAt(i, FilterFrom) \/ ZeroLengthAt(i, FilterTo))
                  => KeptAs(i, frames[i].start_time, frames[i].end_time)

\* a frame of no length on from was kept while a frame that ends on from and
\* a frame that starts on to were removed, with from < to
C21_Witness ==
    /\ out.kind = "filtered"
    /\ FilterFrom < FilterTo
    /\ \E i \in DOMAIN frames :
          /\ ZeroLengthAt(i, FilterFrom)
          /\ KeptAs(i, FilterFrom, FilterFrom)
    /\ \E i \in DOMAIN frames :
          /\ \/ frames[i].start_time < FilterFrom /\ frames[i].end_time = FilterFrom
             \/ frames[i].start_time = FilterTo /\ frames[i].end_time > FilterTo
          /\ Dropped(i)

(***************************************************************************)
(* expected_duration as a function: the weekly template and the calendars  *)
(* are drawn, and the function is applied to a period with from <= to.     *)
(***************************************************************************)
\* weekly templates, Monday first, in whole seconds
Templates == { <<8, 6, 5, 0, 0, 0, 0>>, <<1, 2, 3, 4, 5, 6, 7>> }

WorkingHours(template) == [d \in 0..6 |-> FromSecs(template[d + 1])]

\* the dates that can carry a day-off entry: a Monday and a Friday
DayOffDates == {4, 8}

Calendars ==
    UNION { [dates -> {"Full", "Half"}] : dates \in SUBSET DayOffDates }

NumEntries(calendar) == Cardinality(DOMAIN calendar)

ExpTimes == 0..ExpMaxT

InitExpected ==
    /\ frames = <<>>
    /\ state = None
    /\ now = 0
    /\ working_hours \in { WorkingHours(t) : t \in Templates }
    /\ vacations \in Calendars
    /\ holidays \in Calendars
    /\ sick_days \in Calendars
    /\ NumEntries(vacations) + NumEntries(holidays) + NumEntries(sick_days)
          <= MaxDayOffs
    /\ DefaultAllowances
    /\ out = [kind |-> "idle"]

\* expected_duration(&config, &timespan, &holidays, &sick_days, &vacations)
ExpectedDuration ==
    \E from \in ExpTimes, to \in ExpTimes :
        /\ out.kind = "idle"
        /\ from <= to
        /\ out' = [kind |-> "expected", timespan |-> Timespan(from, to),
                   result |-> expected_duration(working_hours, Timespan(from, to),
                                                holidays, sick_days, vacations)]
        /\ UNCHANGED persisted

NextExpected == ExpectedDuration

SpecExpected == InitExpected /\ [][NextExpected]_vars

(***************************************************************************)
(* Claims about expected_duration (SpecExpected).                          *)
(***************************************************************************)
StartDate == timestamp_to_local_date(out.timespan.from)

EndDate == timestamp_to_local_date(out.timespan.to)

\* the template's duration on a date, in whole seconds
TemplateSecs(date) == working_hours[(date + WeekdayOfDayZero) % 7] \div 2

\* the template's durations of every date from StartDate through EndDate
TemplateSum == SumOver(StartDate..EndDate, [d \in StartDate..EndDate |-> TemplateSecs(d)])

DayOffDatesInRange ==
    { d \in DOMAIN vacations \cup DOMAIN holidays \cup DOMAIN sick_days :
        StartDate <= d /\ d <= EndDate }

PortionsOn(d) ==
    { c[d] : c \in { c \in {vacations, holidays, sick_days} : d \in DOMAIN c } }

CalendarsWith(d) ==
    (IF d \in DOMAIN vacations THEN 1 ELSE 0)
      + (IF d \in DOMAIN holidays THEN 1 ELSE 0)
      + (IF d \in DOMAIN sick_days THEN 1 ELSE 0)

\* twice the seconds that the day-off date d takes off: the whole template
\* duration if any entry is Full, otherwise half of it
TwiceReduction(d) ==
    IF "Full" \in PortionsOn(d) THEN 2 * TemplateSecs(d) ELSE TemplateSecs(d)

Applied == out.kind = "expected" /\ out.timespan.from <= out.timespan.to

NoDayOffs == vacations = <<>> /\ holidays = <<>> /\ sick_days = <<>>

\* C6: with no day-off entries and from <= to, expected_duration is the sum
\* of the template's durations of every local date from the date of from
\* through the date of to, whatever the time of day of to; a span of k * 7
\* days yields k times the weekly total.
C6_WholeDays ==
    (Applied /\ NoDayOffs) =>
        /\ out.result = [status |-> "ok", secs |-> Secs(TemplateSum)]
        /\ \A k \in 0..ExpMaxT :
              (EndDate - StartDate) + 1 = 7 * k =>
                  out.result.secs =
                      Secs(k * SumOver(0..6, [d \in 0..6 |-> working_hours[d] \div 2]))

\* a period of two weeks and a day that ends after local midnight
C6_Witness ==
    /\ Applied /\ NoDayOffs
    /\ (EndDate - StartDate) + 1 = 15
    /\ (out.timespan.to + LocalOffset) % DayLen # 0
    /\ out.result.status = "ok"
    /\ out.result.secs.lo > 0

\* C7: a date that is in more than one calendar reduces expected_duration
\* once, by its maximum-severity portion (Full if any entry is Full,
\* otherwise Half), whichever calendar holds which portion and in whatever
\* order the calendars are merged.
C7_MergedOnce ==
    (Applied /\ \E d \in DayOffDatesInRange : CalendarsWith(d) > 1) =>
        /\ out.result.status = "ok"
        /\ out.result.secs.hi = 0
        /\ out.result.secs.lo =
              (2 * TemplateSum
                 - SumOver(DayOffDatesInRange,
                           [d \in DayOffDatesInRange |-> TwiceReduction(d)])) \div 2
        /\ out.result = expected_duration(working_hours, out.timespan,
                                          vacations, holidays, sick_days)
        /\ out.result = expected_duration(working_hours, out.timespan,
                                          sick_days, vacations, holidays)

\* a Monday in range is Half in one calendar and Full in a later merged one
C7_Witness ==
    /\ Applied
    /\ 4 \in DayOffDatesInRange
    /\ 4 \in DOMAIN vacations /\ vacations[4] = "Half"
    /\ 4 \in DOMAIN sick_days /\ sick_days[4] = "Full"
    /\ TemplateSecs(4) > 0
    /\ out.result.status = "ok"

\* the only day-off entry there is: its date and portion
OnlyEntry ==
    LET c == CHOOSE c \in {vacations, holidays, sick_days} : c # <<>>
        d == CHOOSE d \in DOMAIN c : TRUE
    IN  [date |-> d, portion |-> c[d]]

SingleDayOff ==
    NumEntries(vacations) + NumEntries(holidays) + NumEntries(sick_days) = 1

\* expected_duration of the same period and template with no day off at all
WithoutDayOffs ==
    expected_duration(working_hours, out.timespan, <<>>, <<>>, <<>>)

\* C8 as stated: one day-off entry on a date in [startDate, endDate] changes
\* expected_duration by exactly minus the template duration of its weekday
\* when Full and by exactly minus half of it when Half; an entry outside
\* [startDate, endDate] changes nothing.
C8_SingleDayOffAsClaimed ==
    (Applied /\ SingleDayOff) =>
        /\ out.result.status = "ok"
        /\ out.result.secs.hi = 0
        /\ LET d == OnlyEntry.date
               change == out.result.secs.lo - WithoutDayOffs.secs.lo
           IN  IF d < StartDate \/ d > EndDate THEN change = 0
               ELSE IF OnlyEntry.portion = "Full" THEN change = -TemplateSecs(d)
               ELSE 2 * change = -TemplateSecs(d)

\* C8 as amended: the same, but the change of a Half entry is minus half the
\* template duration rounded up to a whole second (expected_duration returns
\* whole seconds), which is exactly half when the duration is an even
\* number of seconds.
C8_SingleDayOff ==
    (Applied /\ SingleDayOff) =>
        /\ out.result.status = "ok"
        /\ out.result.secs.hi = 0
        /\ LET d == OnlyEntry.date
               change == out.result.secs.lo - WithoutDayOffs.secs.lo
           IN  IF d < StartDate \/ d > EndDate THEN change = 0
               ELSE IF OnlyEntry.portion = "Full" THEN change = -TemplateSecs(d)
               ELSE change = -((TemplateSecs(d) + 1) \div 2)

\* a single Half entry in range on a day of 8 seconds
C8_Witness ==
    /\ Applied /\ SingleDayOff
    /\ OnlyEntry.portion = "Half"
    /\ StartDate <= OnlyEntry.date /\ OnlyEntry.date <= EndDate
    /\ TemplateSecs(OnlyEntry.date) = 8
    /\ out.result.status = "ok"
    /\ out.result.secs.lo = WithoutDayOffs.secs.lo - 4

\* the passes of subtract_day_offs in the call that produced out
Steps ==
    LET day_offs == merge_day_offs_in_range(vacations, holidays, sick_days,
                                            StartDate, EndDate)
    IN  subtract_day_offs_steps(
            total_before_day_offs(working_hours, out.timespan),
            day_offs, DOMAIN day_offs, working_hours)

\* the running total before the first pass and after each pass
RunningTotals ==
    <<total_before_day_offs(working_hours, out.timespan)>>
      \o [k \in 1..Len(Steps) |-> Steps[k].duration]

FinalTotal == RunningTotals[Len(RunningTotals)]

\* a duration, held in half seconds, is a whole number of seconds
WholeSeconds(duration) == duration.lo % 2 = 0

TemplateWhole == \A d \in 0..6 : working_hours[d] % 2 = 0

\* the passes up to the k-th that subtract an odd number of half seconds
OddPasses(steps, k) == { j \in 1..k : steps[j].subtract % 2 = 1 }

RECURSIVE TemplateFromTo(_, _)
TemplateFromTo(first, last) ==
    IF first > last THEN 0
    ELSE working_hours[Weekday(first)] + TemplateFromTo(first + 1, last)

\* the half seconds that the day-off dates of D take off
RECURSIVE ReductionOf(_)
ReductionOf(D) ==
    IF D = {} THEN 0
    ELSE LET d == Min(D) IN TwiceReduction(d) + ReductionOf(D \ {d})

\* C26: for a period with from <= to the zero clamp of subtract_day_offs is
\* never exercised: at each pass the running total is at least the amount
\* subtracted, so expected_duration is not negative and is the per-date
\* template sum minus the merged day-off reductions, truncated to seconds.
C26_ClampUnused ==
    Applied =>
        LET steps == Steps
            before == total_before_day_offs(working_hours, out.timespan)
            totals == <<before>> \o [k \in DOMAIN steps |-> steps[k].duration]
        IN  /\ \A k \in DOMAIN steps :
                  /\ ~steps[k].clamped
                  /\ totals[k].lo >= steps[k].subtract
                  /\ steps[k].duration.lo = totals[k].lo - steps[k].subtract
            /\ out.result.status = "ok"
            /\ out.result.secs.hi = 0
            /\ out.result.secs.lo >= 0
            /\ out.result.secs.lo =
                  (TemplateFromTo(StartDate, EndDate)
                     - ReductionOf(DayOffDatesInRange)) \div 2

\* a period of one Monday that is a Full day off: the pass takes all there
\* is and nothing is left
C26_Witness ==
    /\ Applied
    /\ StartDate = 4 /\ EndDate = 4
    /\ Len(Steps) = 1
    /\ Steps[1].date = 4 /\ Steps[1].subtract = 16
    /\ RunningTotals[1].lo = 16
    /\ ~Steps[1].clamped
    /\ out.result = [status |-> "ok", secs |-> Secs(0)]

\* the weeks and days of the period that was asked for
WeeksAndDays == calculate_weeks_and_days(out.timespan)

\* the remainder as the code takes it, from the last remaining_days dates
TailRemainder ==
    calculate_remaining_days_hours(WeeksAndDays.remaining_days, EndDate,
                                   working_hours)

\* the same loop over the first n dates of the period
HeadRemainder(n) == RemainingLoop(0, n, StartDate, working_hours)

\* C30: for every range and every weekly template the remainder taken from
\* the last remaining_days dates ending at the end date equals the one taken
\* from the first remaining_days dates starting at the start date, the two
\* groups falling on the same weekdays, so that the total before the day
\* offs, and with it expected_duration, is the same either way.
C30_TailEqualsHead ==
    Applied =>
        LET wd == WeeksAndDays
            head == HeadRemainder(wd.remaining_days)
        IN  /\ TailRemainder = head
            /\ \A n \in 0..(wd.remaining_days - 1) :
                  Weekday(EndDate - (wd.remaining_days - 1) + n)
                      = Weekday(StartDate + n)
            /\ total_before_day_offs(working_hours, out.timespan).lo
                  = wd.full_weeks * total_weekly_duration(working_hours) + head

\* a period of one week and three days that begins on a Saturday, with a
\* template whose days all differ
C30_Witness ==
    /\ Applied
    /\ WeeksAndDays = [full_weeks |-> 1, remaining_days |-> 3]
    /\ Weekday(StartDate) = 5
    /\ working_hours[0] # working_hours[5]
    /\ TailRemainder = working_hours[5] + working_hours[6] + working_hours[0]
    /\ out.result.status = "ok"

(***************************************************************************)
(* balance and report as commands over recorded data: n frames of two      *)
(* ticks each, one tick apart, perhaps a frame in progress that began      *)
(* after the last one or that was started with --at in the day ahead, at   *)
(* most one day-off entry, and every choice of arguments.                  *)
(***************************************************************************)
History(n) ==
    [i \in 1..n |-> Frame(3 * i - 2, 3 * i, ProjectAt(i), TagsAt(i), 3 * i)]

CurrentFrame(start_time, project, tags) ==
    [start_time |-> start_time, project |-> project, tags |-> tags]

\* the vacation, holiday and sick-day calendars with one entry in all, or none
OneDayOff ==
    { <<c, <<>>, <<>> >> : c \in Calendars } \cup { << <<>>, c, <<>> >> : c \in Calendars }
      \cup { << <<>>, <<>>, c>> : c \in Calendars }

BalanceCalendars == { cs \in OneDayOff : NumEntries(cs[1]) + NumEntries(cs[2]) + NumEntries(cs[3]) <= 1 }

\* the times that --from and --to can name: around the recorded frames, and
\* more than a week after them
ArgTimes ==
    (0..(3 * MaxLen + 3)) \cup { 3 * MaxLen + 2 + 8 * DayLen, 3 * MaxLen + 3 + 8 * DayLen }

OptionalTimes == {None} \cup { Some(t) : t \in ArgTimes }

PeriodArgs ==
    { Args("none", from, to, None) : from \in OptionalTimes, to \in OptionalTimes }
      \cup { Args(selector, None, None, None) : selector \in {"day", "week", "month", "year"} }

InitBalance ==
    /\ \E n \in 0..MaxLen :
          /\ frames = History(n)
          /\ state \in { None,
                         Some(CurrentFrame(3 * n + 1, "p1", <<"t2">>)),
                         Some(CurrentFrame(3 * n + 3 + DayLen, "p2", <<>>)) }
          /\ now \in { 3 * n + 2, 3 * n + 3 }
    /\ working_hours \in { WorkingHours(t) : t \in Templates }
    /\ \E cs \in BalanceCalendars :
          /\ vacations = cs[1]
          /\ holidays = cs[2]
          /\ sick_days = cs[3]
    /\ DefaultAllowances
    /\ out = [kind |-> "idle"]

RunBalance ==
    \E args \in PeriodArgs :
        /\ out.kind = "idle"
        /\ out' = run_balance(args, now)
        /\ UNCHANGED persisted

RunReport ==
    \E args \in PeriodArgs, project \in {None, Some("p1")} :
        /\ out.kind = "idle"
        /\ out' = run_report([args EXCEPT !.project = project], now)
        /\ UNCHANGED persisted

NextBalance == RunBalance \/ RunReport

SpecBalance == InitBalance /\ [][NextBalance]_vars

\* a command that got past the check of --from against --to, and its period
Resolved == out.kind \in {"balance", "report"} /\ out.status # "error"

InvertedPeriod == Resolved /\ out.timespan.from > out.timespan.to

\* the positions of the frames the command kept
Kept == 1..Len(out.frames)

KeptOf(p) == { i \in Kept : out.frames[i].project = p }

\* the sum of end_time - start_time over the kept frames at the positions I
KeptDuration(I) ==
    SumOver(I, [i \in I |-> out.frames[i].end_time - out.frames[i].start_time])

\* C2: whenever the resolved period has from > to, balance and report use an
\* empty frame list: no frames, an actual or total duration of 0 and an empty
\* per-project map, whatever is recorded and whether or not a frame is in
\* progress.
C2_EmptyPeriod ==
    InvertedPeriod =>
        /\ out.frames = <<>>
        /\ (out.kind = "balance" /\ out.status = "ok") =>
               out.actual_working_seconds = 0
        /\ out.kind = "report" =>
               out.total_duration = 0 /\ DOMAIN out.projects = {}

\* only --from is given and lies after now, with frames recorded and a frame
\* in progress
C2_Witness ==
    /\ InvertedPeriod
    /\ out.kind = "report"
    /\ IsSome(out.args.from) /\ ~IsSome(out.args.to)
    /\ frames # <<>>
    /\ IsSome(state)
    /\ out.frames = <<>>

\* C3: whenever the resolved period has from > to, balance reports 0 expected
\* working seconds, from and to on the same local date included.
C3_ExpectedZero ==
    (InvertedPeriod /\ out.kind = "balance" /\ out.status = "ok") =>
        out.expected_working_seconds = Secs(0)

\* C4: balance is total on periods with from > to: whether from's date is
\* that of to, the day after or a week or more after, every step of
\* expected_duration completes and balance returns a result.
C4_TotalOnInvertedPeriod ==
    (InvertedPeriod /\ out.kind = "balance") => out.status = "ok"

\* C9: the total duration is the sum of end_time - start_time over the kept
\* frames, a project's duration is that sum over its frames, the projects
\* listed are those with a frame, and their durations add up to the total.
C9_Aggregation ==
    /\ (out.kind = "balance" /\ out.status = "ok") =>
           out.actual_working_seconds = KeptDuration(Kept)
    /\ (out.kind = "report" /\ out.status = "ok") =>
           /\ out.total_duration = KeptDuration(Kept)
           /\ DOMAIN out.projects = { out.frames[i].project : i \in Kept }
           /\ \A p \in DOMAIN out.projects :
                  out.projects[p].duration = KeptDuration(KeptOf(p))
           /\ SumOver(DOMAIN out.projects,
                      [p \in DOMAIN out.projects |-> out.projects[p].duration])
                  = out.total_duration

\* a report of three frames, two of them of the same project
C9_Witness ==
    /\ out.kind = "report" /\ out.status = "ok"
    /\ Len(out.frames) = 3
    /\ Cardinality(DOMAIN out.projects) = 2
    /\ \E p \in DOMAIN out.projects : Cardinality(KeptOf(p)) = 2
    /\ out.total_duration > 0

\* the tags of the kept frames of project p
TagsOf(p) ==
    UNION { { out.frames[i].tags[j] : j \in 1..Len(out.frames[i].tags) } : i \in KeptOf(p) }

KeptWith(p, tag) ==
    { i \in KeptOf(p) : \E j \in 1..Len(out.frames[i].tags) : out.frames[i].tags[j] = tag }

\* C10: the report gives for each project a map from tag to duration, in
\* which a frame contributes its whole clipped duration to the bucket of each
\* of its tags.
C10_TagBuckets ==
    (out.kind = "report" /\ out.status = "ok") =>
        \A p \in DOMAIN out.projects :
            /\ "tags" \in DOMAIN out.projects[p]
            /\ DOMAIN out.projects[p].tags = TagsOf(p)
            /\ \A tag \in TagsOf(p) :
                   out.projects[p].tags[tag] = KeptDuration(KeptWith(p, tag))

(***************************************************************************)
(* types.rs and days_off.rs: the allowances of a year and the summary of   *)
(* the days taken.  An f32 that is a multiple of 0.5 is kept as its        *)
(* double, a whole number of half days.                                    *)
(***************************************************************************)
\* find_allowed_for_year: the value at the largest key not after the year
find_allowed_for_year_latest(map, year) ==
    IF DOMAIN map = {} THEN 0
    ELSE map[CHOOSE y \in DOMAIN map : \A z \in DOMAIN map : z <= y]

find_allowed_for_year(map, year) ==
    LET keys == { y \in DOMAIN map : y <= year }
    IN  IF keys = {} THEN 0
        ELSE map[CHOOSE y \in keys : \A z \in keys : z <= y]

allowed_vacation_days(year) == find_allowed_for_year(vacation_days_per_year, year)

allowed_sick_days(year) == find_allowed_for_year(sick_days_per_year, year)

\* date.year(), in a calendar of years of 365 days that begins with 1970
YearOf(date) == 1970 + (date \div 365)

\* filter_by_year: the entries of the calendar whose date lies in the year
filter_by_year_from(map, year) ==
    [d \in { e \in DOMAIN map : YearOf(e) >= year } |-> map[d]]

filter_by_year(map, year) ==
    [d \in { e \in DOMAIN map : YearOf(e) = year } |-> map[d]]

\* count_days, in half days: 1.0 for Full and 0.5 for Half
count_days(map) ==
    SumOver(DOMAIN map, [d \in DOMAIN map |-> IF map[d] = "Full" THEN 2 ELSE 1])

\* the spacing of the f32 values around a magnitude m of half days: 24 bits
\* of significand
RECURSIVE Quantum(_)
Quantum(m) == IF m < 16777216 THEN 1 ELSE 2 * Quantum(m \div 2)

\* the f32 nearest to x2 half days, ties to the even significand
F32(x2) ==
    LET m == IF x2 < 0 THEN -x2 ELSE x2
        q == Quantum(m)
        lo == (m \div q) * q
        r == m - lo
        rounded == IF 2 * r < q THEN lo
                   ELSE IF 2 * r > q THEN lo + q
                   ELSE IF (lo \div q) % 2 = 0 THEN lo ELSE lo + q
    IN  IF x2 < 0 THEN -rounded ELSE rounded

\* normalize_zero: -0.0 becomes 0.0, every other value is itself
normalize_zero(x2) == IF x2 = 0 THEN 0 ELSE x2

\* what run_daysoff prints for the year
run_daysoff(year) ==
    LET sick_days_taken == F32(count_days(filter_by_year(sick_days, year)))
        sick_days_allowed == allowed_sick_days(year)
        vacation_days_taken == F32(count_days(filter_by_year(vacations, year)))
        vacation_days_allowed == allowed_vacation_days(year)
    IN  [kind |-> "daysoff", year |-> year,
         vacation_days_taken |-> normalize_zero(vacation_days_taken),
         vacation_days_allowed |-> vacation_days_allowed,
         vacation_days_remaining |->
             normalize_zero(F32(F32(2 * vacation_days_allowed) - vacation_days_taken)),
         sick_days_taken |-> normalize_zero(sick_days_taken),
         sick_days_allowed |-> sick_days_allowed,
         sick_days_remaining |->
             normalize_zero(F32(F32(2 * sick_days_allowed) - sick_days_taken))]

(***************************************************************************)
(* daysoff over allowance tables keyed by 1970 and 1972, vacations around  *)
(* the turns of the years 1970 to 1972, and the years 1969 to 1972.        *)
(***************************************************************************)
AllowanceYears == {1970, 1972}

AllowedValues == 1..MaxAllowed

AllowanceTables ==
    UNION { [keys -> AllowedValues] : keys \in SUBSET AllowanceYears }

\* the last day of 1970, the first and the last of 1971, the first of 1972
YearDates == {364, 365, 729, 730}

YearCalendars(dates) ==
    UNION { [ds -> {"Full", "Half"}] : ds \in SUBSET dates }

DaysOffYears == 1969..1972

InitDaysOff ==
    /\ frames = <<>>
    /\ state = None
    /\ now = 0
    /\ working_hours = default_working_hours
    /\ holidays = EmptyCalendar
    /\ vacations \in { c \in YearCalendars(YearDates) : NumEntries(c) <= MaxDayOffs }
    /\ sick_days \in { c \in YearCalendars({365, 729}) : NumEntries(c) <= 1 }
    /\ vacation_days_per_year \in AllowanceTables
    /\ sick_days_per_year \in { t \in AllowanceTables : Cardinality(DOMAIN t) <= 1 }
    /\ out = [kind |-> "idle"]

DaysOff ==
    \E year \in DaysOffYears :
        /\ out.kind = "idle"
        /\ out' = run_daysoff(year)
        /\ UNCHANGED persisted

NextDaysOff == DaysOff

SpecDaysOff == InitDaysOff /\ [][NextDaysOff]_vars

\* C11: allowed_vacation_days(Y) and allowed_sick_days(Y) are the value stored
\* at the largest key <= Y and 0 when no key is <= Y, so that the keys after
\* Y have no influence on them.
C11_AllowanceLookup ==
    out.kind = "daysoff" =>
        /\ \A y \in DOMAIN vacation_days_per_year :
               (y <= out.year /\ \A z \in DOMAIN vacation_days_per_year : z <= out.year => z <= y)
                   => out.vacation_days_allowed = vacation_days_per_year[y]
        /\ \A y \in DOMAIN sick_days_per_year :
               (y <= out.year /\ \A z \in DOMAIN sick_days_per_year : z <= out.year => z <= y)
                   => out.sick_days_allowed = sick_days_per_year[y]
        /\ (\A y \in DOMAIN vacation_days_per_year : y > out.year)
               => out.vacation_days_allowed = 0
        /\ (\A y \in DOMAIN sick_days_per_year : y > out.year)
               => out.sick_days_allowed = 0

\* a table with a key before and a key after the year, holding different
\* values
C11_Witness ==
    /\ out.kind = "daysoff"
    /\ out.year = 1971
    /\ DOMAIN vacation_days_per_year = {1970, 1972}
    /\ vacation_days_per_year[1970] # vacation_days_per_year[1972]
    /\ out.vacation_days_allowed = vacation_days_per_year[1970]
    /\ DOMAIN sick_days_per_year = {1972}
    /\ out.sick_days_allowed = 0

\* the dates of a calendar in the year asked for, by portion
TakenIn(calendar, portion) ==
    Cardinality({ d \in DOMAIN calendar :
                    YearOf(d) = out.year /\ calendar[d] = portion })

\* C12: taken counts the entries dated in the year, 1 for Full and 0.5 for
\* Half, and remaining is allowed minus taken, negative when taken exceeds
\* allowed (taken and remaining are held in half days).
C12_Summary ==
    out.kind = "daysoff" =>
        /\ out.vacation_days_taken
               = 2 * TakenIn(vacations, "Full") + TakenIn(vacations, "Half")
        /\ out.sick_days_taken
               = 2 * TakenIn(sick_days, "Full") + TakenIn(sick_days, "Half")
        /\ out.vacation_days_remaining
               = 2 * out.vacation_days_allowed - out.vacation_days_taken
        /\ out.sick_days_remaining
               = 2 * out.sick_days_allowed - out.sick_days_taken
        /\ out.vacation_days_taken > 2 * out.vacation_days_allowed
               => out.vacation_days_remaining < 0

\* a Half vacation day in the year and a Full one in the year after, with no
\* allowance for the year
C12_Witness ==
    /\ out.kind = "daysoff"
    /\ out.year = 1971
    /\ TakenIn(vacations, "Half") = 1
    /\ \E d \in DOMAIN vacations : YearOf(d) = 1972 /\ vacations[d] = "Full"
    /\ out.vacation_days_taken = 1
    /\ out.vacation_days_allowed = 0
    /\ out.vacation_days_remaining = -1

(***************************************************************************)
(* tracking.rs: start, restart, stop and cancel.  A command returns the    *)
(* frames and the state it has saved when it ends, and how it ended.       *)
(***************************************************************************)
StartArgs(project, tags, at, no_gap) ==
    [project |-> project, tags |-> tags, at |-> at, no_gap |-> no_gap]

RestartArgs(at, no_gap) == [at |-> at, no_gap |-> no_gap]

StopArgs(at) == [at |-> at]

\* the tags that begin with '+', and what is left of each without it
WithoutPlus == [t \in {"+t1", "+t2", "++t1"} |->
                   IF t = "+t1" THEN "t1" ELSE IF t = "+t2" THEN "t2" ELSE "+t1"]

\* str::strip_prefix('+')
strip_prefix(tag) == IF tag \in DOMAIN WithoutPlus THEN Some(WithoutPlus[tag]) ELSE None

\* tags.iter().filter_map(|t| t.strip_prefix('+')).collect()
RECURSIVE tags_cleaned(_)
tags_cleaned(tags) ==
    IF tags = <<>> THEN <<>>
    ELSE IF IsSome(strip_prefix(Head(tags)))
    THEN <<Unwrap(strip_prefix(Head(tags)))>> \o tags_cleaned(Tail(tags))
    ELSE tags_cleaned(Tail(tags))

\* frames.frames.last().map(|f| f.end_time), loaded for --no-gap and --at
last_frame_end(args, fs) ==
    IF (args.no_gap \/ IsSome(args.at)) /\ fs # <<>>
    THEN Some(fs[Len(fs)].end_time)
    ELSE None

\* the check of --at against the end of the last frame, without its equality
StartOverlapsOrTouches(args, fs) ==
    /\ IsSome(args.at)
    /\ IsSome(last_frame_end(args, fs))
    /\ Unwrap(args.at) <= Unwrap(last_frame_end(args, fs))

\* update_current_frame bails: --at lies before the end of the last frame
StartOverlaps(args, fs) ==
    /\ IsSome(args.at)
    /\ IsSome(last_frame_end(args, fs))
    /\ Unwrap(args.at) < Unwrap(last_frame_end(args, fs))

\* the start time update_current_frame chooses
start_time_of(args, now_ts, fs) ==
    IF IsSome(args.at) THEN Unwrap(args.at)
    ELSE IF args.no_gap
    THEN (IF IsSome(last_frame_end(args, fs))
          THEN Unwrap(last_frame_end(args, fs)) ELSE now_ts)
    ELSE now_ts

\* update_current_frame: the state it leaves, when it does not bail
update_current_frame(args, now_ts, fs) ==
    Some(CurrentFrame(start_time_of(args, now_ts, fs), args.project,
                      tags_cleaned(args.tags)))

\* stop_current_frame with the end time taken from the start time
stop_current_frame_empty(fs, current_frame, end_ts) ==
    Append(fs, Frame(current_frame.start_time, current_frame.start_time,
                     current_frame.project, current_frame.tags, end_ts))

\* stop_current_frame: the frames it saves
stop_current_frame(fs, current_frame, end_ts) ==
    Append(fs, Frame(current_frame.start_time, end_ts, current_frame.project,
                     current_frame.tags, end_ts))

\* how a command ends: what it saved, and the error it failed with
Done(kind, args, fs, st) ==
    [kind |-> kind, status |-> "ok", message |-> "", args |-> args,
     frames |-> fs, state |-> st]

Failed(kind, args, fs, st, message) ==
    [kind |-> kind, status |-> "error", message |-> message, args |-> args,
     frames |-> fs, state |-> st]

\* run_start with the start time chosen from the frames as they were loaded
\* before the frame in progress was stopped
run_start_stale(args, fs, st, now_ts) ==
    LET stopped == IF IsSome(st) THEN stop_current_frame(fs, Unwrap(st), now_ts)
                   ELSE fs
    IN  IF StartOverlaps(args, fs)
        THEN Failed("start", args, stopped, st, "Start time is before the end of the last frame")
        ELSE Done("start", args, stopped, update_current_frame(args, now_ts, fs))

run_start(args, fs, st, now_ts) ==
    LET stopped == IF IsSome(st) THEN stop_current_frame(fs, Unwrap(st), now_ts)
                   ELSE fs
    IN  IF StartOverlaps(args, stopped)
        THEN Failed("start", args, stopped, st, "Start time is before the end of the last frame")
        ELSE Done("start", args, stopped, update_current_frame(args, now_ts, stopped))

run_restart(args, fs, st, now_ts) ==
    IF IsSome(st) THEN Failed("restart", args, fs, st, "The project is already in progress.")
    ELSE IF fs = <<>>
    THEN Failed("restart", args, fs, st, "No previous project found to be restarted.")
    ELSE LET last_frame == fs[Len(fs)]
             start_args == StartArgs(last_frame.project, last_frame.tags,
                                     args.at, args.no_gap)
         IN  IF StartOverlaps(start_args, fs)
             THEN Failed("restart", args, fs, st, "Start time is before the end of the last frame")
             ELSE Done("restart", args, fs,
                       update_current_frame(start_args, now_ts, fs))

\* the check of stop --at against the start time, without its equality
StopBeforeStartStrict(args, current_frame) ==
    IsSome(args.at) /\ Unwrap(args.at) < current_frame.start_time

\* run_stop bails: --at is not after the start of the frame in progress
StopBeforeStart(args, current_frame) ==
    IsSome(args.at) /\ Unwrap(args.at) <= current_frame.start_time

run_stop(args, fs, st, now_ts) ==
    IF ~IsSome(st) THEN Failed("stop", args, fs, st, "No project started.")
    ELSE IF StopBeforeStart(args, Unwrap(st))
    THEN Failed("stop", args, fs, st, "End time is before start time")
    ELSE LET end_time == IF IsSome(args.at) THEN Unwrap(args.at) ELSE now_ts
         IN  Done("stop", args, stop_current_frame(fs, Unwrap(st), end_time), None)

run_cancel(fs, st) ==
    IF IsSome(st) THEN Done("cancel", <<>>, fs, None)
    ELSE Failed("cancel", <<>>, fs, st, "No project started.")

(***************************************************************************)
(* Tracking over time: the commands are issued in any order while the      *)
(* clock moves on, and report and balance are run on what was recorded.    *)
(***************************************************************************)
\* the projects started and the tags given with them: two tags of which one
\* lacks the plus, and none
StartChoices == { <<"p1", <<"+t1", "t2">> >>, <<"p2", <<>> >> }

AtTimes == 0..(MaxClock + MaxAhead)

\* --at and --no-gap exclude each other
StartTimes ==
    { [at |-> None, no_gap |-> FALSE], [at |-> None, no_gap |-> TRUE] }
      \cup { [at |-> Some(t), no_gap |-> FALSE] : t \in AtTimes }

\* the periods asked of report and balance while tracking
TrackingPeriods ==
    { Args("none", None, None, None), Args("day", None, None, None) }

Init ==
    /\ frames = <<>>
    /\ state = None
    /\ now = 0
    /\ working_hours = default_working_hours
    /\ vacations = EmptyCalendar
    /\ holidays = EmptyCalendar
    /\ sick_days = EmptyCalendar
    /\ DefaultAllowances
    /\ out = [kind |-> "idle"]

configuration ==
    <<working_hours, vacations, holidays, sick_days, vacation_days_per_year,
      sick_days_per_year>>

\* what a tracking command leaves behind
Saved(result) ==
    /\ frames' = result.frames
    /\ state' = result.state
    /\ out' = [kind |-> result.kind, status |-> result.status,
               message |-> result.message, args |-> result.args]
    /\ UNCHANGED <<now, configuration>>

Tick ==
    /\ now < MaxClock
    /\ now' = now + 1
    /\ out' = [kind |-> "tick"]
    /\ UNCHANGED <<frames, state, configuration>>

Start ==
    \E choice \in StartChoices, time \in StartTimes :
        /\ IsSome(state) => Len(frames) < MaxFrames
        /\ Saved(run_start(StartArgs(choice[1], choice[2], time.at, time.no_gap),
                           frames, state, now))

Restart ==
    \E time \in StartTimes :
        Saved(run_restart(RestartArgs(time.at, time.no_gap), frames, state, now))

Stop ==
    \E at \in {None} \cup { Some(t) : t \in AtTimes } :
        /\ Len(frames) < MaxFrames
        /\ Saved(run_stop(StopArgs(at), frames, state, now))

Cancel == Saved(run_cancel(frames, state))

Report ==
    \E args \in TrackingPeriods :
        /\ out' = run_report(args, now)
        /\ UNCHANGED persisted

Balance ==
    \E args \in TrackingPeriods :
        /\ out' = run_balance(args, now)
        /\ UNCHANGED persisted

Next == Tick \/ Start \/ Restart \/ Stop \/ Cancel \/ Report \/ Balance

Spec == Init /\ [][Next]_vars

\* the start times of the recorded frames and of the frame in progress
AllStarts ==
    { frames[i].start_time : i \in 1..Len(frames) }
      \cup (IF IsSome(state) THEN {Unwrap(state).start_time} ELSE {})

\* C13: without a selector and without --from, the period begins at the
\* earliest start time among the recorded frames and the frame in progress,
\* at 0 when there is no frame, and ends at --to if given and else at now.
C13_EarliestFrame ==
    (Resolved /\ out.args.selector = "none" /\ ~IsSome(out.args.from)) =>
        /\ out.timespan.from = (IF AllStarts = {} THEN 0 ELSE Min(AllStarts))
        /\ out.timespan.to = (IF IsSome(out.args.to) THEN Unwrap(out.args.to) ELSE now)

(***************************************************************************)
(* The period of a selector, resolved at every reading of the clock in the *)
(* first MaxPeriodDays days, with and without a recorded frame.            *)
(***************************************************************************)
InitPeriod ==
    /\ frames \in { History(0), History(1) }
    /\ state = None
    /\ now \in 0..(MaxPeriodDays * DayLen)
    /\ working_hours = default_working_hours
    /\ vacations = EmptyCalendar
    /\ holidays = EmptyCalendar
    /\ sick_days = EmptyCalendar
    /\ DefaultAllowances
    /\ out = [kind |-> "idle"]

ResolvePeriod ==
    \E selector \in {"day", "week", "month", "year"} :
        /\ out.kind = "idle"
        /\ out' = [kind |-> "period",
                   args |-> Args(selector, None, None, None),
                   timespan |-> resolve_timespan(Args(selector, None, None, None),
                                                 now, frames)]
        /\ UNCHANGED persisted

NextPeriod == ResolvePeriod

SpecPeriod == InitPeriod /\ [][NextPeriod]_vars

\* the local date on which the resolved period begins, and that of now
FromDate == (out.timespan.from + LocalOffset) \div DayLen

NowDate == (now + LocalOffset) \div DayLen

C15_ExplicitPeriodChecked ==
    out.kind \in {"balance", "report"} =>
        /\ out.status = "error" <=>
               /\ IsSome(out.args.from)
               /\ IsSome(out.args.to)
               /\ Unwrap(out.args.from) >= Unwrap(out.args.to)
        /\ out.status = "error" => DOMAIN out = {"kind", "status", "args"}

\* --from and --to name the same time
C15_Witness ==
    /\ out.kind = "balance"
    /\ out.status = "error"
    /\ IsSome(out.args.from) /\ IsSome(out.args.to)
    /\ Unwrap(out.args.from) = Unwrap(out.args.to)

\* C16: after any sequence of start, stop, restart and cancel commands, every
\* recorded frame ends no earlier than it starts.
C16_FramesNotInverted ==
    \A i \in 1..Len(frames) : frames[i].end_time >= frames[i].start_time

\* a step of the command kind that ended with the status
Ran(kind, status) == out'.kind = kind /\ out'.status = status

\* the frames recorded before the step are still there, in their places
EarlierFramesKept ==
    /\ Len(frames') = Len(frames) + 1
    /\ \A i \in 1..Len(frames) : frames'[i] = frames[i]

\* the frame the step has added
Added == frames'[Len(frames')]

\* the frame the step has added is the frame that was in progress
AddedFromCurrent ==
    /\ Added.project = Unwrap(state).project
    /\ Added.tags = Unwrap(state).tags
    /\ Added.start_time = Unwrap(state).start_time

\* C17: a successful stop adds exactly one frame, with the project, the tags
\* and the start time of the frame in progress and ending at --at if given
\* and else at now; no frame is in progress afterwards and the frames recorded
\* before are unchanged.
C17_StopRecords ==
    [][Ran("stop", "ok") =>
          /\ IsSome(state)
          /\ EarlierFramesKept
          /\ AddedFromCurrent
          /\ Added.end_time = (IF IsSome(out'.args.at) THEN Unwrap(out'.args.at) ELSE now)
          /\ state' = None]_vars

\* a stop --at that recorded a second frame with tags
C17_Witness ==
    /\ out.kind = "stop" /\ out.status = "ok"
    /\ IsSome(out.args.at)
    /\ Len(frames) = 2
    /\ frames[2].end_time = Unwrap(out.args.at)
    /\ frames[2].end_time # now
    /\ frames[2].tags # <<>>
    /\ state = None

\* C18: a start without --at while a frame is in progress records that frame
\* and puts the new project in progress, beginning exactly where the frame
\* just recorded ends.
C18_StartClosesCurrent ==
    [][(Ran("start", "ok") /\ ~IsSome(out'.args.at) /\ IsSome(state)) =>
          /\ EarlierFramesKept
          /\ AddedFromCurrent
          /\ Added.end_time = now
          /\ IsSome(state')
          /\ Unwrap(state').project = out'.args.project
          /\ Unwrap(state').start_time = Added.end_time]_vars

\* a start --no-gap of another project after the clock has moved on, with a
\* frame recorded before the one just closed
C18_Witness ==
    /\ out.kind = "start" /\ out.status = "ok"
    /\ out.args.no_gap
    /\ Len(frames) = 2
    /\ IsSome(state)
    /\ Unwrap(state).project # frames[2].project
    /\ Unwrap(state).start_time = frames[2].end_time
    /\ frames[2].end_time > frames[2].start_time
    /\ frames[2].end_time # frames[1].end_time

\* the end of the last recorded frame, as the command finds it when it
\* chooses the start time
LastEnd == frames[Len(frames)].end_time

\* a start, or a restart that found no frame in progress and a frame to
\* restart
StartedOrRestarted ==
    \/ out.kind = "start"
    \/ out.kind = "restart" /\ out.status = "ok"
    \/ out.kind = "restart" /\ state = None /\ frames # <<>>

\* C19: start and restart with --at T fail exactly when T is earlier than the
\* end of the last recorded frame, and otherwise put a frame in progress that
\* starts at T; with --no-gap the frame in progress starts at the end of the
\* last recorded frame, or at now when there is none.
C19_StartTime ==
    StartedOrRestarted =>
        /\ IsSome(out.args.at) =>
               /\ out.status = "error" <=>
                      (frames # <<>> /\ Unwrap(out.args.at) < LastEnd)
               /\ out.status = "ok" =>
                      IsSome(state) /\ Unwrap(state).start_time = Unwrap(out.args.at)
        /\ out.args.no_gap =>
               /\ out.status = "ok"
               /\ IsSome(state)
               /\ Unwrap(state).start_time = (IF frames = <<>> THEN now ELSE LastEnd)

\* a restart --at the very end of the last recorded frame
C19_Witness ==
    /\ out.kind = "restart" /\ out.status = "ok"
    /\ IsSome(out.args.at)
    /\ frames # <<>>
    /\ Unwrap(out.args.at) = LastEnd
    /\ Unwrap(state).start_time = LastEnd
    /\ LastEnd # now

\* C20: stop and cancel fail with 'No project started.' when no frame is in
\* progress, stop --at T fails when T is not after the start of the frame in
\* progress, and a failing stop or cancel leaves the state and the recorded
\* frames as they were.
C20_FailingStopCancel ==
    [][out'.kind \in {"stop", "cancel"} =>
          /\ ~IsSome(state) =>
                 out'.status = "error" /\ out'.message = "No project started."
          /\ (out'.kind = "stop" /\ IsSome(state) /\ IsSome(out'.args.at)
                /\ Unwrap(out'.args.at) <= Unwrap(state).start_time) =>
                 out'.status = "error"
          /\ out'.status = "error" => (frames' = frames /\ state' = state)]_vars

\* a stop --at the very start of the frame in progress, which stays in
\* progress
C20_Witness ==
    /\ out.kind = "stop" /\ out.status = "error"
    /\ IsSome(state)
    /\ IsSome(out.args.at)
    /\ Unwrap(out.args.at) = Unwrap(state).start_time
    /\ frames # <<>>

\* C25: after any sequence of start (plain, --at, --no-gap), stop (plain,
\* --at), restart and cancel commands under a clock that never goes back,
\* each recorded frame starts at or after the end of the frame recorded
\* before it, and the first frame of the list is the earliest one.
C25_Chronological ==
    /\ \A i \in 1..(Len(frames) - 1) :
          frames[i + 1].start_time >= frames[i].end_time
    /\ \A i \in DOMAIN frames : frames[1].start_time <= frames[i].start_time

\* C27: a start command that fails, as start --at T does while a frame is
\* in progress when T lies before the end of the last recorded frame, leaves
\* the recorded frames and the persisted state exactly as they were.
C27_FailingStart ==
    [][(out'.kind = "start" /\ out'.status = "error") =>
          (frames' = frames /\ state' = state)]_vars

\* C28: restart fails and changes nothing when a frame is in progress or no
\* frame is recorded; a restart that succeeds puts in progress a frame with
\* exactly the project and the tags of the last recorded frame.
C28_RestartLastFrame ==
    [][out'.kind = "restart" =>
          /\ (IsSome(state) \/ frames = <<>>) =>
                (out'.status = "error" /\ frames' = frames /\ state' = state)
          /\ out'.status = "ok" =>
                /\ frames' = frames
                /\ IsSome(state')
                /\ Unwrap(state').project = frames[Len(frames)].project
                /\ Unwrap(state').tags = frames[Len(frames)].tags]_vars

\* C29: in every balance and report run whose period has from <= to, every
\* frame that is aggregated, the frame in progress taken as ending now
\* included, has from <= start_time <= end_time <= to, whatever start, stop,
\* restart and cancel commands came before, so the duration reported as
\* actual or total is not negative.
C29_AggregatedInPeriod ==
    (Resolved /\ out.status = "ok" /\ out.timespan.from <= out.timespan.to) =>
        /\ \A i \in Kept :
              /\ out.timespan.from <= out.frames[i].start_time
              /\ out.frames[i].start_time <= out.frames[i].end_time
              /\ out.frames[i].end_time <= out.timespan.to
        /\ out.kind = "balance" => out.actual_working_seconds >= 0
        /\ out.kind = "report" => out.total_duration >= 0

(***************************************************************************)
(* types.rs, tag.rs and project.rs: renaming a project and renaming or     *)
(* removing a tag in every recorded frame.                                 *)
(***************************************************************************)
\* the order of the tag strings, '+' sorting before the letters
TagRank == [t \in {"+t1", "t1", "t2"} |->
               IF t = "+t1" THEN 0 ELSE IF t = "t1" THEN 1 ELSE 2]

\* the tags of S in ascending order
RECURSIVE SortedTags(_)
SortedTags(S) ==
    IF S = {} THEN <<>>
    ELSE LET first == CHOOSE t \in S : \A u \in S : TagRank[t] <= TagRank[u]
         IN  <<first>> \o SortedTags(S \ {first})

\* tags.sort(); tags.dedup()
sort_dedup(tags) == SortedTags({ tags[k] : k \in DOMAIN tags })

rename_project(fs, old_name, new_name) ==
    [i \in DOMAIN fs |->
        IF fs[i].project = old_name
        THEN [fs[i] EXCEPT !.project = new_name]
        ELSE fs[i]]

rename_tag(fs, old_name, new_name) ==
    [i \in DOMAIN fs |->
        LET renamed == [k \in DOMAIN fs[i].tags |->
                           IF fs[i].tags[k] = old_name THEN new_name
                           ELSE fs[i].tags[k]]
            changed == \E k \in DOMAIN fs[i].tags : fs[i].tags[k] = old_name
        IN  IF changed THEN [fs[i] EXCEPT !.tags = sort_dedup(renamed)]
            ELSE fs[i]]

RECURSIVE WithoutTag(_, _)
WithoutTag(tags, tag_to_remove) ==
    IF tags = <<>> THEN <<>>
    ELSE IF Head(tags) # tag_to_remove
    THEN <<Head(tags)>> \o WithoutTag(Tail(tags), tag_to_remove)
    ELSE WithoutTag(Tail(tags), tag_to_remove)

\* remove_tag that retains the frames without the tag instead of the tags
remove_tag_with_frames(fs, tag_to_remove) ==
    SelectSeq(fs, LAMBDA frame : \A k \in DOMAIN frame.tags :
                                     frame.tags[k] # tag_to_remove)

remove_tag(fs, tag_to_remove) ==
    [i \in DOMAIN fs |->
        [fs[i] EXCEPT !.tags = WithoutTag(fs[i].tags, tag_to_remove)]]

\* run_tag with TagCommands::Rename and TagCommands::Remove, and
\* run_project with ProjectCommands::Rename
run_tag_rename(old_name, new_name, fs, st) ==
    Done("tag rename", <<old_name, new_name>>,
         rename_tag(fs, old_name, new_name), st)

run_tag_remove(tag, fs, st) ==
    Done("tag remove", <<tag>>, remove_tag(fs, tag), st)

run_project_rename(old_name, new_name, fs, st) ==
    Done("project rename", <<old_name, new_name>>,
         rename_project(fs, old_name, new_name), st)

(***************************************************************************)
(* Tracking with labels: the tracking commands and the commands that       *)
(* rename and remove labels, in any order.                                 *)
(***************************************************************************)
\* the projects started with tags that all carry the plus: one tag given
\* twice, and two tags given out of order
LabelChoices == { <<"p1", <<"+t1", "+t1">> >>, <<"p2", <<"+t2", "+t1">> >> }

ProjectNames == {"p1", "p2"}

TagNames == {"t1", "t2"}

StartTagged ==
    \E choice \in LabelChoices :
        /\ IsSome(state) => Len(frames) < MaxFrames
        /\ Saved(run_start(StartArgs(choice[1], choice[2], None, FALSE),
                           frames, state, now))

TagRename ==
    \E old_name \in TagNames, new_name \in TagNames :
        Saved(run_tag_rename(old_name, new_name, frames, state))

TagRemove ==
    \E tag \in TagNames : Saved(run_tag_remove(tag, frames, state))

ProjectRename ==
    \E old_name \in ProjectNames, new_name \in ProjectNames :
        Saved(run_project_rename(old_name, new_name, frames, state))

\* restart and stop without options
RestartNow == Saved(run_restart(RestartArgs(None, FALSE), frames, state, now))

StopNow ==
    /\ Len(frames) < MaxFrames
    /\ Saved(run_stop(StopArgs(None), frames, state, now))

NextLabels ==
    \/ Tick \/ StartTagged \/ RestartNow \/ StopNow \/ Cancel
    \/ TagRename \/ TagRemove \/ ProjectRename \/ Report \/ Balance

SpecLabels == Init /\ [][NextLabels]_vars

(***************************************************************************)
(* Claims about the labels (SpecLabels).                                   *)
(***************************************************************************)
NoTagTwice(tags) ==
    \A j \in DOMAIN tags, k \in DOMAIN tags : tags[j] = tags[k] => j = k

\* C23: after any sequence of start, stop, restart, cancel, tag rename and
\* tag remove commands no recorded frame and no frame in progress lists the
\* same tag more than once, also when start is given the same +tag twice.
C23_TagsFormSet ==
    /\ \A i \in DOMAIN frames : NoTagTwice(frames[i].tags)
    /\ IsSome(state) => NoTagTwice(Unwrap(state).tags)

\* C24: across any sequence of start, stop, restart, cancel, project rename,
\* tag rename, tag remove, report and balance commands the number of
\* recorded frames never decreases and the start_time and end_time of every
\* recorded frame stay the same; report and balance leave the persisted
\* frames and state untouched.
C24_FramesKept ==
    [][/\ Len(frames') >= Len(frames)
       /\ \A i \in DOMAIN frames :
             /\ frames'[i].start_time = frames[i].start_time
             /\ frames'[i].end_time = frames[i].end_time
       /\ out'.kind \in {"report", "balance"} =>
             (frames' = frames /\ state' = state)]_vars

\* a tag was renamed in two recorded frames, of which one had it twice
C24_Witness ==
    /\ out.kind = "tag rename" /\ out.args = <<"t1", "t2">>
    /\ Len(frames) = 2
    /\ frames[1].start_time < frames[1].end_time
    /\ \A i \in DOMAIN frames : frames[i].tags = <<"t2">>
    /\ \E i \in DOMAIN frames : frames[i].project = "p1"

====
